---- MODULE Spec2Model ----
(***************************************************************************)
(* The staged MIR transformation pipeline of librustc_mir/transform/mod.rs *)
(* The queries of one item (mir_const, mir_const_qualif, mir_validated,    *)
(* mir_drops_elaborated_and_const_checked, optimized_mir, promoted_mir),   *)
(* the pass engine run_passes and the Steal cells that hand a body from    *)
(* one stage to the next.                                                  *)
(***************************************************************************)
EXTENDS Integers, Sequences, FiniteSets, TLC

VARIABLES
    cfg,      \* session options and the properties of the item (fixed after Init)
    cells,    \* the Steal cells of the item: cell name -> [st, val]
    cache,    \* the query cache: <<query, key>> -> [st, val]
    stack,    \* the stack of provider invocations in progress
    fault,    \* "none", or the panic / fatal error that ended the compilation
    dump,     \* events per MirSource (promoted index): hooks, pass runs, validator runs
    stolenBy, \* per cell: the providers that have stolen it, in order
    runs,     \* per <<query, key>>: how many times the provider body was entered
    ret,      \* what the last finished top-level request returned
    diags,    \* the diagnostics recorded so far
    hbody,    \* engine harness: the body run_passes is applied to
    hevents,  \* engine harness: the events of the last call
    hcall,    \* engine harness: the arguments of the last call and the body before it
    hcalls,   \* engine harness: number of calls made
    hcell,    \* cell harness: one Steal cell
    hinit,    \* cell harness: the value hcell was constructed with
    hlog      \* cell harness: the operations made so far

vars == <<cfg, cells, cache, stack, fault, dump, stolenBy, runs, ret, diags,
          hbody, hevents, hcall, hcalls, hcell, hinit, hlog>>

pipeVars == <<cells, cache, stack, fault, dump, stolenBy, runs, ret, diags>>
engineVars == <<hbody, hevents, hcall, hcalls>>
cellVars == <<hcell, hinit, hlog>>

----------------------------------------------------------------------------
(* Bounds *)

MaxOptLevel == 1   \* mir_opt_level ranges over 0..MaxOptLevel
MaxPromoted == 1   \* PromoteTemps extracts 0..MaxPromoted promoted bodies
MaxCalls == 2      \* engine harness: calls of the engine on one body
MaxOps == 5        \* cell harness: operations on one cell

----------------------------------------------------------------------------
(* MirPhase *)

Phases == {"Build", "Const", "Validated", "DropElab", "Optimized"}

phase_index(p) ==
    CASE p = "Build" -> 0
      [] p = "Const" -> 1
      [] p = "Validated" -> 2
      [] p = "DropElab" -> 3
      [] p = "Optimized" -> 4

\* Option<T>: None is <<>>, Some(x) is <<x>>
None == <<>>
Some(x) == <<x>>

\* a body: its phase tag, the transformations applied to it in order (its
\* contents), and the phase values it has had
NewBody(p) == [phase |-> p, applied |-> <<>>, hist |-> <<p>>]

----------------------------------------------------------------------------
(* The pass tables *)

mir_const_passes ==
    << <<"CheckPackedRef", "SimplifyCfg-initial", "SanityCheck">> >>

promote == <<"PromoteTemps", "SimplifyCfg-qualify-consts">>

opt_coverage(instrument_coverage) ==
    IF instrument_coverage THEN <<"InstrumentCoverage">> ELSE <<>>

mir_validated_passes(instrument_coverage) ==
    <<promote, opt_coverage(instrument_coverage)>>

\* faulty variant: drop elaboration after AddRetag
post_borrowck_cleanup_misordered ==
    <<"NoLandingPads", "SimplifyBranches-initial", "RemoveNoopLandingPads",
      "CleanupNonCodegenStatements", "SimplifyCfg-early-opt",
      "CriticalCallEdges", "NoLandingPads",
      "AddMovesForPackedDrops", "AddRetag", "ElaborateDrops",
      "SimplifyCfg-elaborate-drops">>

post_borrowck_cleanup ==
    <<"NoLandingPads", "SimplifyBranches-initial", "RemoveNoopLandingPads",
      "CleanupNonCodegenStatements", "SimplifyCfg-early-opt",
      "CriticalCallEdges", "ElaborateDrops", "NoLandingPads",
      "AddMovesForPackedDrops", "AddRetag", "SimplifyCfg-elaborate-drops">>

optimizations ==
    <<"UnreachablePropagation", "UninhabitedEnumBranching",
      "SimplifyCfg-after-uninhabited-enum-branching", "Inline",
      "StateTransform", "InstCombine", "ConstProp",
      "SimplifyBranches-after-const-prop", "Deaggregator",
      "SimplifyArmIdentity", "SimplifyBranchSame", "CopyPropagation",
      "SimplifyBranches-after-copy-prop", "RemoveNoopLandingPads",
      "SimplifyCfg-after-remove-noop-landing-pads", "SimplifyCfg-final",
      "RenameReturnPlace", "SimplifyLocals">>

no_optimizations == <<"StateTransform", "ConstProp", "Deaggregator">>

pre_codegen_cleanup == <<"CriticalCallEdges", "PreCodegen">>

\* faulty variant: the optimization group only from level 2 on
optimization_groups_wrong(mir_opt_level) ==
    <<IF mir_opt_level > 1 THEN optimizations ELSE no_optimizations,
      pre_codegen_cleanup>>

optimization_groups(mir_opt_level) ==
    <<IF mir_opt_level > 0 THEN optimizations ELSE no_optimizations,
      pre_codegen_cleanup>>

----------------------------------------------------------------------------
(* run_passes *)

\* an event of the run: a hook (before, after), a pass's transformation
\* (run), a validator run or a dump, with the phase of the body it is given
Event(kind, pass, mir_phase, index, body) ==
    [kind |-> kind, pass |-> pass, phase |-> mir_phase,
     phase_index |-> phase_index(mir_phase), index |-> index,
     body_phase |-> body.phase]

\* MirPass::run_pass: the pass transforms the body in place
pass_run_pass(pass, body) == [body EXCEPT !.applied = Append(@, pass)]

\* faulty variant of run_pass: the before-hook fires after the pass has run
run_pass_hooks_swapped(st, pass, mir_phase, validate) ==
    LET body1 == pass_run_pass(pass, st.body)
    IN  [body |-> body1,
         events |-> st.events
                     \o <<Event("run", pass, mir_phase, st.index, st.body),
                          Event("before", pass, mir_phase, st.index, body1),
                          Event("after", pass, mir_phase, st.index, body1)>>
                     \o (IF validate
                            THEN <<Event("validate_after", pass, mir_phase, st.index, body1)>>
                            ELSE <<>>),
         index |-> st.index + 1]

\* the closure run_pass of run_passes; st is [body, events, index]
run_pass(st, pass, mir_phase, validate) ==
    LET body1 == pass_run_pass(pass, st.body)
    IN  [body |-> body1,
         events |-> st.events
                     \o <<Event("before", pass, mir_phase, st.index, st.body),
                          Event("run", pass, mir_phase, st.index, st.body),
                          Event("after", pass, mir_phase, st.index, body1)>>
                     \o (IF validate
                            THEN <<Event("validate_after", pass, mir_phase, st.index, body1)>>
                            ELSE <<>>),
         index |-> st.index + 1]

\* for pass in *pass_group { run_pass(*pass) }
RECURSIVE run_group(_, _, _, _)
run_group(st, pass_group, mir_phase, validate) ==
    IF pass_group = <<>> THEN st
    ELSE run_group(run_pass(st, Head(pass_group), mir_phase, validate),
                   Tail(pass_group), mir_phase, validate)

\* for pass_group in passes { ... }
RECURSIVE run_groups(_, _, _, _)
run_groups(st, passes, mir_phase, validate) ==
    IF passes = <<>> THEN st
    ELSE run_groups(run_group(st, Head(passes), mir_phase, validate),
                    Tail(passes), mir_phase, validate)

\* run_passes past its early return: the body it leaves and the events it causes
run_passes_body(body, mir_phase, passes, validate) ==
    LET st0 == [body |-> body,
                events |-> IF validate
                              THEN <<Event("validate_input", "", mir_phase, 0, body)>>
                              ELSE <<>>,
                index |-> 0]
        st1 == run_groups(st0, passes, mir_phase, validate)
        body1 == [st1.body EXCEPT !.phase = mir_phase,
                                  !.hist = Append(@, mir_phase)]
    IN  [body |-> body1,
         events |-> st1.events
                     \o (IF mir_phase = "Optimized"
                            THEN <<Event("validate_end", "", mir_phase, st1.index, body1)>>
                            ELSE <<>>)]

\* faulty variant: the final validation runs only with validate_mir on
run_passes_end_validation_gated(body, mir_phase, passes, validate) ==
    IF phase_index(body.phase) >= phase_index(mir_phase)
    THEN [body |-> body, events |-> <<>>]
    ELSE LET r == run_passes_body(body, mir_phase, passes, validate)
         IN  [r EXCEPT !.events =
                 SelectSeq(@, LAMBDA e : e.kind # "validate_end" \/ validate)]

\* faulty variant: the early return only when the body is past the target
run_passes_strict_guard(body, mir_phase, passes, validate) ==
    IF phase_index(body.phase) > phase_index(mir_phase)
    THEN [body |-> body, events |-> <<>>]
    ELSE run_passes_body(body, mir_phase, passes, validate)

\* faulty variant: no early return
run_passes_unguarded(body, mir_phase, passes, validate) ==
    run_passes_body(body, mir_phase, passes, validate)

\* run_passes: nothing happens to a body at or past the target phase
run_passes(body, mir_phase, passes, validate) ==
    IF phase_index(body.phase) >= phase_index(mir_phase)
    THEN [body |-> body, events |-> <<>>]
    ELSE run_passes_body(body, mir_phase, passes, validate)

run_post_borrowck_cleanup_passes(body, validate) ==
    run_passes(body, "DropElab", <<post_borrowck_cleanup>>, validate)

\* faulty variant: the pre-codegen cleanup group is left out
run_optimization_passes_no_cleanup(body, mir_opt_level, validate) ==
    run_passes(body, "Optimized",
               <<IF mir_opt_level > 0 THEN optimizations ELSE no_optimizations>>,
               validate)

run_optimization_passes(body, mir_opt_level, validate) ==
    run_passes(body, "Optimized", optimization_groups(mir_opt_level), validate)

----------------------------------------------------------------------------
(* Steal<T>: the transfer cell *)

\* a cell: Live with its value, or Taken; readers counts the borrows that
\* are outstanding
Steal_new(value) == [st |-> "Live", val |-> value, readers |-> 0]

Unalloc == [st |-> "Unalloc", val |-> <<>>, readers |-> 0]
Stolen == [st |-> "Taken", val |-> <<>>, readers |-> 0]

\* borrow(): the outcome [ok, val, cell], cell being the cell while the
\* borrow is outstanding; a stolen cell panics
Steal_borrow(cell) ==
    IF cell.st = "Live"
    THEN [ok |-> TRUE, val |-> cell.val, cell |-> [cell EXCEPT !.readers = @ + 1]]
    ELSE [ok |-> FALSE, val |-> <<>>, cell |-> cell]

\* the end of a borrow
Steal_release(cell) == [cell EXCEPT !.readers = @ - 1]

\* faulty variant of steal(): the value is handed out and the cell stays Live
Steal_steal_keeps_live(cell) ==
    IF cell.st = "Live"
    THEN [ok |-> TRUE, val |-> cell.val, cell |-> cell, err |-> ""]
    ELSE [ok |-> FALSE, val |-> <<>>, cell |-> cell, err |-> "steal_stolen"]

\* steal(): the outcome [ok, val, cell, err]; a cell with an outstanding
\* borrow panics ("stealing value which is locked"), a stolen cell panics
Steal_steal(cell) ==
    IF cell.readers > 0
    THEN [ok |-> FALSE, val |-> <<>>, cell |-> cell, err |-> "steal_locked"]
    ELSE IF cell.st = "Live"
    THEN [ok |-> TRUE, val |-> cell.val, cell |-> Stolen, err |-> ""]
    ELSE [ok |-> FALSE, val |-> <<>>, cell |-> cell, err |-> "steal_stolen"]

----------------------------------------------------------------------------
(* The item and its keys *)

\* WithOptConstParam { did, const_param_did }
Key(cp) == [did |-> "d", const_param_did |-> cp]
Keys == {Key(None), Key(Some("P"))}

\* WithOptConstParam::try_upgrade / try_lookup: the resolved key of an
\* unresolved key of a const-generic argument
try_upgrade(def) ==
    IF def.const_param_did = None /\ cfg.opt_const_param_of # None
    THEN Some(Key(cfg.opt_const_param_of))
    ELSE None

Queries ==
    {"unsafety_check_result", "mir_built", "mir_const", "mir_const_qualif",
     "mir_validated", "mir_borrowck", "mir_drops_elaborated_and_const_checked",
     "optimized_mir", "promoted_mir"}

CellNames == {"built", "const", "validated", "promoted", "dropelab"}

\* the types of the test: struct S(Option<<S as Mirror>::It>) contains itself,
\* Option<u8> does not
Tys == {"S", "Option<<S as Mirror>::It>", "Option<u8>", "u8"}

\* the types whose layout the layout of ty is computed from
layout_fields(ty) ==
    CASE ty = "S" -> <<"Option<<S as Mirror>::It>">>
      [] ty = "Option<<S as Mirror>::It>" -> <<"S">>
      [] ty = "Option<u8>" -> <<"u8">>
      [] OTHER -> <<>>

\* the keys of the query cache
QueryKeys == (Queries \X Keys) \cup ({"layout_of"} \X Tys)

\* Option<Promoted> of a MirSource
Sources == {None} \cup {Some(p) : p \in 0..(MaxPromoted - 1)}

\* the kinds of item: an fn, a const, a const whose return type has a type
\* error, a tuple constructor, an anonymous const used as const-generic
\* argument, an fn with a local of type Option<u8>, the fn main of the
\* test, with a local of the type S that contains itself, and the consts
\* whose validation requests a query of the const itself
ItemKinds ==
    { [is_constructor |-> FALSE, const_kind |-> None, return_ty_error |-> FALSE,
       opt_const_param_of |-> None, local_ty |-> None, validator_query |-> None],
      [is_constructor |-> FALSE, const_kind |-> Some("Const"), return_ty_error |-> FALSE,
       opt_const_param_of |-> None, local_ty |-> None, validator_query |-> None],
      [is_constructor |-> FALSE, const_kind |-> Some("Const"), return_ty_error |-> TRUE,
       opt_const_param_of |-> None, local_ty |-> None, validator_query |-> None],
      [is_constructor |-> TRUE, const_kind |-> None, return_ty_error |-> FALSE,
       opt_const_param_of |-> None, local_ty |-> None, validator_query |-> None],
      [is_constructor |-> FALSE, const_kind |-> Some("Const"), return_ty_error |-> FALSE,
       opt_const_param_of |-> Some("P"), local_ty |-> None, validator_query |-> None],
      [is_constructor |-> FALSE, const_kind |-> None, return_ty_error |-> FALSE,
       opt_const_param_of |-> None, local_ty |-> Some("Option<u8>"), validator_query |-> None],
      [is_constructor |-> FALSE, const_kind |-> None, return_ty_error |-> FALSE,
       opt_const_param_of |-> None, local_ty |-> Some("S"), validator_query |-> None] }
    \cup
    { [is_constructor |-> FALSE, const_kind |-> Some("Const"), return_ty_error |-> FALSE,
       opt_const_param_of |-> None, local_ty |-> None, validator_query |-> Some(q)] :
        q \in Queries }

\* the session options and the item
Configs ==
    { [is_constructor |-> it.is_constructor, const_kind |-> it.const_kind,
       return_ty_error |-> it.return_ty_error,
       opt_const_param_of |-> it.opt_const_param_of, local_ty |-> it.local_ty,
       validator_query |-> it.validator_query,
       validate_mir |-> v, mir_opt_level |-> o,
       instrument_coverage |-> c, borrowck_errors |-> b, npromoted |-> n] :
        it \in ItemKinds, v \in BOOLEAN, o \in 0..MaxOptLevel, c \in BOOLEAN,
        b \in BOOLEAN, n \in 0..MaxPromoted }

\* the item with two keys and the items with a typed local are explored
\* without coverage instrumentation and without borrowck errors, the consts
\* with a query in their validation also without promoted bodies
PipelineConfigs ==
    { c \in Configs :
        /\ c.opt_const_param_of # None \/ c.local_ty # None \/ c.validator_query # None =>
               ~c.instrument_coverage /\ ~c.borrowck_errors
        /\ c.validator_query # None => c.npromoted = 0 }

----------------------------------------------------------------------------
(* The query layer: tcx.<query>(key) *)

NoFault == [kind |-> "none", by |-> "", cell |-> "", cycle |-> <<>>, usage |-> None]
NoRet == [q |-> "", key |-> Key(None), val |-> <<>>, cached |-> FALSE, fresh |-> FALSE]

\* an invocation of a provider: its step, the result of its last query, the
\* body it holds, the cell it holds a borrow of
Frame(q, k, memo) ==
    [q |-> q, key |-> k, pc |-> "start", res |-> <<>>, body |-> <<>>, borrowed |-> "",
     memo |-> memo]

Top == stack[Len(stack)]
SetTop(f) == [stack EXCEPT ![Len(stack)] = f]

\* the provider q is at the step pc
At(q, pc) == fault = NoFault /\ stack # <<>> /\ Top.q = q /\ Top.pc = pc

\* a panic ends the compilation
Panic(kind, cell) ==
    /\ fault' = [NoFault EXCEPT !.kind = kind, !.by = Top.q, !.cell = cell]
    /\ UNCHANGED <<cells, cache, stack, dump, stolenBy, runs, ret, diags>>

\* the provider function called directly, not through the query cache
direct_call(q, k, nextpc) ==
    /\ stack' = Append(SetTop([Top EXCEPT !.pc = nextpc]), Frame(q, k, FALSE))
    /\ runs' = [runs EXCEPT ![<<q, k>>] = @ + 1]
    /\ UNCHANGED <<cache, fault>>

\* the cycle error of a request of <<q, k>> that is in progress: the queries
\* from its invocation to the top of the stack form the cycle, the query that
\* invoked it (if any) used the cycle
QueryInfo(f) == [q |-> f.q, key |-> f.key]
CycleError(q, k) ==
    LET i == CHOOSE j \in 1..Len(stack) :
                 stack[j].memo /\ stack[j].q = q /\ stack[j].key = k
    IN  [NoFault EXCEPT !.kind = "cycle", !.by = Top.q,
                        !.cycle = [j \in 1..(Len(stack) - i + 1) |->
                                      QueryInfo(stack[i + j - 1])],
                        !.usage = IF i > 1 THEN Some(QueryInfo(stack[i - 1])) ELSE None]

\* faulty variant: a query in progress is entered again
tcx_query_reenters(q, k, nextpc) ==
    LET caller == [Top EXCEPT !.pc = nextpc]
    IN  IF cache[<<q, k>>].st = "done"
        THEN /\ stack' = SetTop([caller EXCEPT !.res = cache[<<q, k>>].val])
             /\ UNCHANGED <<cache, fault, runs>>
        ELSE /\ cache' = [cache EXCEPT ![<<q, k>>].st = "active"]
             /\ stack' = Append(SetTop(caller), Frame(q, k, TRUE))
             /\ runs' = [runs EXCEPT ![<<q, k>>] = @ + 1]
             /\ UNCHANGED fault

\* tcx.q(k) and tcx.ensure().q(k) made by the provider on top of the stack,
\* which continues at nextpc with the result in res: a cached result is
\* returned, a query in progress is a cycle error, anything else runs the
\* provider
tcx_query(q, k, nextpc) ==
    LET caller == [Top EXCEPT !.pc = nextpc]
    IN  IF cache[<<q, k>>].st = "done"
        THEN /\ stack' = SetTop([caller EXCEPT !.res = cache[<<q, k>>].val])
             /\ UNCHANGED <<cache, fault, runs>>
        ELSE IF cache[<<q, k>>].st = "active"
        THEN /\ fault' = CycleError(q, k)
             /\ UNCHANGED <<cache, stack, runs>>
        ELSE /\ cache' = [cache EXCEPT ![<<q, k>>].st = "active"]
             /\ stack' = Append(SetTop(caller), Frame(q, k, TRUE))
             /\ runs' = [runs EXCEPT ![<<q, k>>] = @ + 1]
             /\ UNCHANGED fault

\* the provider on top of the stack returns val: the result is cached and
\* handed to the caller
Return(val) ==
    /\ cache' = IF Top.memo
                THEN [cache EXCEPT ![<<Top.q, Top.key>>] = [st |-> "done", val |-> val]]
                ELSE cache
    /\ stack' = IF Len(stack) = 1 THEN <<>>
                ELSE [SubSeq(stack, 1, Len(stack) - 1) EXCEPT ![Len(stack) - 1].res = val]
    /\ ret' = IF Len(stack) = 1
              THEN [q |-> Top.q, key |-> Top.key, val |-> val, cached |-> FALSE,
                    fresh |-> ret.fresh]
              ELSE ret

\* the queries whose resolution of an unresolved key is part of this module
UpgradingQueries ==
    {"mir_const", "mir_const_qualif", "mir_validated",
     "mir_drops_elaborated_and_const_checked", "optimized_mir", "promoted_mir"}

\* the queries a caller outside the pipeline may request for the item: a
\* constructor has no built MIR, only optimized_mir and promoted_mir serve it;
\* the unresolved key of a const-generic argument is requested of the
\* queries of this module
Requestable(q, k) ==
    /\ k.const_param_did \in {None, cfg.opt_const_param_of}
    /\ cfg.is_constructor => q \in {"optimized_mir", "promoted_mir"}
    /\ try_upgrade(k) # None => q \in UpgradingQueries

\* no query of the item has been requested so far
NothingComputed == \A qk \in QueryKeys : cache[qk].st = "none"

\* a request from outside the pipeline; ret keeps whether it was the first
Request(q, k) ==
    /\ fault = NoFault /\ stack = <<>>
    /\ Requestable(q, k)
    /\ IF cache[<<q, k>>].st = "done"
       THEN /\ ret' = [q |-> q, key |-> k, val |-> cache[<<q, k>>].val, cached |-> TRUE,
                       fresh |-> FALSE]
            /\ UNCHANGED <<cache, stack, runs>>
       ELSE /\ cache' = [cache EXCEPT ![<<q, k>>].st = "active"]
            /\ stack' = <<Frame(q, k, TRUE)>>
            /\ runs' = [runs EXCEPT ![<<q, k>>] = @ + 1]
            /\ ret' = [NoRet EXCEPT !.fresh = NothingComputed]
    /\ UNCHANGED <<cfg, cells, fault, dump, stolenBy, diags>>
    /\ UNCHANGED engineVars /\ UNCHANGED cellVars

\* the frame of every step of a provider
Step == UNCHANGED cfg /\ UNCHANGED engineVars /\ UNCHANGED cellVars

\* if let Some(def) = def.try_upgrade(tcx) { return tcx.q(def) }: the call
Upgrades == try_upgrade(Top.key) # None
delegate(q) ==
    /\ tcx_query(q, try_upgrade(Top.key)[1], "delegated")
    /\ UNCHANGED <<cells, dump, stolenBy, ret, diags>>

\* ... and the return of the resolved key's result
delegated ==
    /\ fault = NoFault /\ stack # <<>> /\ Top.pc = "delegated"
    /\ Return(Top.res)
    /\ UNCHANGED <<cells, fault, dump, stolenBy, runs, diags>>
    /\ Step

----------------------------------------------------------------------------
(* The providers *)

\* tcx.q(def) with the provider's own key; the provider continues at nextpc
Calls(q, nextpc) ==
    /\ tcx_query(q, Top.key, nextpc)
    /\ UNCHANGED <<cells, dump, stolenBy, ret, diags>>

\* mir_built: the freshly built body, in a cell
mir_built_start ==
    /\ At("mir_built", "start")
    /\ IF Upgrades THEN delegate("mir_built")
       ELSE /\ cells' = [cells EXCEPT !["built"] = Steal_new(NewBody("Build"))]
            /\ Return("built")
            /\ UNCHANGED <<fault, dump, stolenBy, runs, diags>>
    /\ Step

\* unsafety_check_result: reads the raw built body
unsafety_check_result_start ==
    /\ At("unsafety_check_result", "start")
    /\ IF Upgrades THEN delegate("unsafety_check_result")
       ELSE Calls("mir_built", "borrow")
    /\ Step

unsafety_check_result_borrow ==
    /\ At("unsafety_check_result", "borrow")
    /\ IF ~Steal_borrow(cells[Top.res]).ok THEN Panic("borrow_stolen", Top.res)
       ELSE /\ Return("UnsafetyCheckResult")
            /\ UNCHANGED <<cells, fault, dump, stolenBy, runs, diags>>
    /\ Step

\* faulty variant: the unsafety check is not forced before the steal
mir_const_start_no_unsafety ==
    /\ At("mir_const", "start")
    /\ IF Upgrades THEN delegate("mir_const")
       ELSE Calls("mir_built", "steal")
    /\ Step

\* faulty variant: the unresolved key is not upgraded
mir_const_start_no_upgrade ==
    /\ At("mir_const", "start")
    /\ Calls("unsafety_check_result", "built")
    /\ Step

\* mir_const: upgrade the key, or force the unsafety check
mir_const_start ==
    /\ At("mir_const", "start")
    /\ IF Upgrades THEN delegate("mir_const")
       ELSE Calls("unsafety_check_result", "built")
    /\ Step

\* tcx.mir_built(def)
mir_const_built ==
    /\ At("mir_const", "built")
    /\ Calls("mir_built", "steal")
    /\ Step

\* .steal(), the mir_map dump, the Const passes, alloc_steal_mir
mir_const_steal ==
    /\ At("mir_const", "steal")
    /\ LET s == Steal_steal(cells[Top.res])
           r == run_passes(s.val, "Const", mir_const_passes, cfg.validate_mir)
       IN  IF ~s.ok THEN Panic(s.err, Top.res)
           ELSE /\ cells' = [cells EXCEPT ![Top.res] = s.cell,
                                          !["const"] = Steal_new(r.body)]
                /\ stolenBy' = [stolenBy EXCEPT ![Top.res] = Append(@, "mir_const")]
                /\ dump' = [dump EXCEPT ![None] =
                               @ \o <<Event("dump_mir", "mir_map", "Build", 0, s.val)>> \o r.events]
                /\ Return("const")
                /\ UNCHANGED <<fault, runs, diags>>
    /\ Step

\* ConstQualifs: the default, or what the const validator computes from the body
DefaultQualifs == [qualifs |-> "default", body |-> <<>>]
qualifs_in_return_place(body) == [qualifs |-> "checked", body |-> body]

\* faulty variant: mir_const is forced before the test of the const context
mir_const_qualif_start_forces_mir_const ==
    /\ At("mir_const_qualif", "start")
    /\ IF Upgrades THEN delegate("mir_const_qualif")
       ELSE Calls("mir_const", "borrow")
    /\ Step

\* mir_const_qualif: the closure of provide and the test of the const context
mir_const_qualif_start ==
    /\ At("mir_const_qualif", "start")
    /\ IF Upgrades THEN delegate("mir_const_qualif")
       ELSE IF cfg.const_kind = None
       THEN /\ Return(DefaultQualifs)
            /\ UNCHANGED <<cells, fault, dump, stolenBy, runs, diags>>
       ELSE Calls("mir_const", "borrow")
    /\ Step

\* .borrow() and the test of the return type; the borrow lasts until the
\* provider returns
mir_const_qualif_borrow ==
    /\ At("mir_const_qualif", "borrow")
    /\ LET b == Steal_borrow(cells[Top.res])
       IN  IF ~b.ok THEN Panic("borrow_stolen", Top.res)
           ELSE IF cfg.return_ty_error
           THEN /\ diags' = diags \cup {"delay_span_bug: mir_const_qualif: MIR had errors"}
                /\ Return(DefaultQualifs)
                /\ UNCHANGED <<cells, fault, dump, stolenBy, runs>>
           ELSE /\ cells' = [cells EXCEPT ![Top.res] = b.cell]
                /\ stack' = SetTop([Top EXCEPT !.pc = "check_body", !.borrowed = Top.res])
                /\ UNCHANGED <<cache, fault, dump, stolenBy, runs, ret, diags>>
    /\ Step

\* validator.check_body(), with the query it requests for the const itself
mir_const_qualif_check_body ==
    /\ At("mir_const_qualif", "check_body")
    /\ IF cfg.validator_query # None
       THEN tcx_query(cfg.validator_query[1], Top.key, "qualifs")
       ELSE /\ stack' = SetTop([Top EXCEPT !.pc = "qualifs"])
            /\ UNCHANGED <<cache, fault, runs>>
    /\ UNCHANGED <<cells, dump, stolenBy, ret, diags>>
    /\ Step

\* validator.qualifs_in_return_place(); the borrow ends
mir_const_qualif_qualifs ==
    /\ At("mir_const_qualif", "qualifs")
    /\ cells' = [cells EXCEPT ![Top.borrowed] = Steal_release(@)]
    /\ Return(qualifs_in_return_place(cells[Top.borrowed].val))
    /\ UNCHANGED <<fault, dump, stolenBy, runs, diags>>
    /\ Step

\* faulty variant: mir_const_qualif is not forced before the steal
mir_validated_start_no_qualif ==
    /\ At("mir_validated", "start")
    /\ IF Upgrades THEN delegate("mir_validated")
       ELSE Calls("mir_const", "steal")
    /\ Step

\* mir_validated: upgrade the key, or force mir_const_qualif
mir_validated_start ==
    /\ At("mir_validated", "start")
    /\ IF Upgrades THEN delegate("mir_validated")
       ELSE Calls("mir_const_qualif", "const")
    /\ Step

\* tcx.mir_const(def)
mir_validated_const ==
    /\ At("mir_validated", "const")
    /\ Calls("mir_const", "steal")
    /\ Step

\* the bodies PromoteTemps has extracted when the pass group is done
promoted_fragments == [i \in 1..cfg.npromoted |-> NewBody("Build")]

\* faulty variant: the mir_const cell is read, not stolen
mir_validated_steal_borrows ==
    /\ At("mir_validated", "steal")
    /\ LET s == Steal_borrow(cells[Top.res])
           r == run_passes(s.val, "Validated",
                           mir_validated_passes(cfg.instrument_coverage),
                           cfg.validate_mir)
       IN  IF ~s.ok THEN Panic("borrow_stolen", Top.res)
           ELSE /\ cells' = [cells EXCEPT !["validated"] = Steal_new(r.body),
                                          !["promoted"] = Steal_new(promoted_fragments)]
                /\ dump' = [dump EXCEPT ![None] = @ \o r.events]
                /\ Return(<<"validated", "promoted">>)
                /\ UNCHANGED <<fault, stolenBy, runs, diags>>
    /\ Step

\* .steal(), the required consts, the Validated passes, the two new cells
mir_validated_steal ==
    /\ At("mir_validated", "steal")
    /\ LET s == Steal_steal(cells[Top.res])
           r == run_passes(s.val, "Validated",
                           mir_validated_passes(cfg.instrument_coverage),
                           cfg.validate_mir)
       IN  IF ~s.ok THEN Panic(s.err, Top.res)
           ELSE /\ cells' = [cells EXCEPT ![Top.res] = s.cell,
                                          !["validated"] = Steal_new(r.body),
                                          !["promoted"] = Steal_new(promoted_fragments)]
                /\ stolenBy' = [stolenBy EXCEPT ![Top.res] = Append(@, "mir_validated")]
                /\ dump' = [dump EXCEPT ![None] = @ \o r.events]
                /\ Return(<<"validated", "promoted">>)
                /\ UNCHANGED <<fault, runs, diags>>
    /\ Step

\* mir_borrowck: reads the two cells of mir_validated and reports its errors
mir_borrowck_start ==
    /\ At("mir_borrowck", "start")
    /\ IF Upgrades THEN delegate("mir_borrowck")
       ELSE Calls("mir_validated", "borrow")
    /\ Step

mir_borrowck_borrow ==
    /\ At("mir_borrowck", "borrow")
    /\ IF ~Steal_borrow(cells[Top.res[1]]).ok THEN Panic("borrow_stolen", Top.res[1])
       ELSE IF ~Steal_borrow(cells[Top.res[2]]).ok THEN Panic("borrow_stolen", Top.res[2])
       ELSE /\ diags' = IF cfg.borrowck_errors THEN diags \cup {"borrowck error"} ELSE diags
            /\ Return("BorrowCheckResult")
            /\ UNCHANGED <<cells, fault, dump, stolenBy, runs>>
    /\ Step

\* faulty variant: borrowck is not forced before the steal
mir_drops_elaborated_and_const_checked_start_no_borrowck ==
    /\ At("mir_drops_elaborated_and_const_checked", "start")
    /\ IF Upgrades THEN delegate("mir_drops_elaborated_and_const_checked")
       ELSE Calls("mir_validated", "steal")
    /\ Step

\* mir_drops_elaborated_and_const_checked: upgrade the key, or force borrowck
mir_drops_elaborated_and_const_checked_start ==
    /\ At("mir_drops_elaborated_and_const_checked", "start")
    /\ IF Upgrades THEN delegate("mir_drops_elaborated_and_const_checked")
       ELSE Calls("mir_borrowck", "validated")
    /\ Step

\* faulty variant: the violations borrowck has reported end the compilation
mir_drops_elaborated_and_const_checked_validated_aborts ==
    /\ At("mir_drops_elaborated_and_const_checked", "validated")
    /\ IF cfg.borrowck_errors
       THEN Panic("abort", "")
       ELSE Calls("mir_validated", "steal")
    /\ Step

\* tcx.mir_validated(def)
mir_drops_elaborated_and_const_checked_validated ==
    /\ At("mir_drops_elaborated_and_const_checked", "validated")
    /\ Calls("mir_validated", "steal")
    /\ Step

\* body.steal(), the post-borrowck cleanup, check_live_drops (which only
\* reads the body), alloc_steal_mir
mir_drops_elaborated_and_const_checked_steal ==
    /\ At("mir_drops_elaborated_and_const_checked", "steal")
    /\ LET s == Steal_steal(cells[Top.res[1]])
           r == run_post_borrowck_cleanup_passes(s.val, cfg.validate_mir)
       IN  IF ~s.ok THEN Panic(s.err, Top.res[1])
           ELSE /\ cells' = [cells EXCEPT ![Top.res[1]] = s.cell,
                                          !["dropelab"] = Steal_new(r.body)]
                /\ stolenBy' = [stolenBy EXCEPT ![Top.res[1]] =
                                   Append(@, "mir_drops_elaborated_and_const_checked")]
                /\ dump' = [dump EXCEPT ![None] = @ \o r.events]
                /\ Return("dropelab")
                /\ UNCHANGED <<fault, runs, diags>>
    /\ Step

\* shim::build_adt_ctor: the body of a constructor, built directly
build_adt_ctor == [phase |-> "Build", applied |-> <<"build_adt_ctor">>, hist |-> <<"Build">>]

\* faulty variant: a constructor is sent through the pipeline like any item
optimized_mir_start_no_ctor_case ==
    /\ At("optimized_mir", "start")
    /\ IF Upgrades THEN delegate("optimized_mir")
       ELSE Calls("mir_drops_elaborated_and_const_checked", "steal")
    /\ Step

\* faulty variant: the previous stage's provider is called as a function,
\* past the query cache
optimized_mir_start_direct ==
    /\ At("optimized_mir", "start")
    /\ IF Upgrades THEN delegate("optimized_mir")
       ELSE IF cfg.is_constructor
       THEN /\ Return(build_adt_ctor)
            /\ UNCHANGED <<cells, fault, dump, stolenBy, runs, diags>>
       ELSE /\ direct_call("mir_drops_elaborated_and_const_checked", Top.key, "steal")
            /\ UNCHANGED <<cells, dump, stolenBy, ret, diags>>
    /\ Step

\* optimized_mir / optimized_mir_of_const_arg / inner_optimized_mir up to the
\* request of the drop-elaborated cell
optimized_mir_start ==
    /\ At("optimized_mir", "start")
    /\ IF Upgrades THEN delegate("optimized_mir")
       ELSE IF cfg.is_constructor
       THEN /\ Return(build_adt_ctor)
            /\ UNCHANGED <<cells, fault, dump, stolenBy, runs, diags>>
       ELSE Calls("mir_drops_elaborated_and_const_checked", "steal")
    /\ Step

\* layout_of: the layout of a type, computed from the layouts of its fields
LayoutOf(ty) == [layout_of |-> ty]

layout_of_start ==
    /\ At("layout_of", "start")
    /\ IF layout_fields(Top.key) = <<>>
       THEN /\ Return(LayoutOf(Top.key))
            /\ UNCHANGED <<fault, runs>>
       ELSE /\ tcx_query("layout_of", layout_fields(Top.key)[1], "fields")
            /\ UNCHANGED ret
    /\ UNCHANGED <<cells, dump, stolenBy, diags>>
    /\ Step

layout_of_fields ==
    /\ At("layout_of", "fields")
    /\ Return(LayoutOf(Top.key))
    /\ UNCHANGED <<cells, fault, dump, stolenBy, runs, diags>>
    /\ Step

\* .steal() of the drop-elaborated cell
optimized_mir_steal ==
    /\ At("optimized_mir", "steal")
    /\ LET s == Steal_steal(cells[Top.res])
       IN  IF ~s.ok THEN Panic(s.err, Top.res)
           ELSE /\ cells' = [cells EXCEPT ![Top.res] = s.cell]
                /\ stolenBy' = [stolenBy EXCEPT ![Top.res] = Append(@, "optimized_mir")]
                /\ stack' = SetTop([Top EXCEPT !.pc = "passes", !.body = s.val])
                /\ UNCHANGED <<cache, fault, dump, runs, ret, diags>>
    /\ Step

\* the events of a run of the optimization passes up to the before-hook of
\* ConstProp, the pass that interprets the body and asks for the layout of
\* the types of its locals
UpToConstProp(events) ==
    LET i == CHOOSE j \in 1..Len(events) :
                 events[j].kind = "run" /\ events[j].pass = "ConstProp"
    IN  SubSeq(events, 1, i - 1)

\* run_optimization_passes and the arena allocation; with a typed local the
\* run stops in ConstProp for the layout of the local's type
optimized_mir_passes ==
    /\ At("optimized_mir", "passes")
    /\ LET r == run_optimization_passes(Top.body, cfg.mir_opt_level, cfg.validate_mir)
       IN  IF cfg.local_ty = None
           THEN /\ dump' = [dump EXCEPT ![None] = @ \o r.events]
                /\ Return(r.body)
                /\ UNCHANGED <<fault, runs>>
           ELSE /\ dump' = [dump EXCEPT ![None] = @ \o UpToConstProp(r.events)]
                /\ tcx_query("layout_of", cfg.local_ty[1], "layout")
                /\ UNCHANGED ret
    /\ UNCHANGED <<cells, stolenBy, diags>>
    /\ Step

\* the rest of the run once the layout is there
optimized_mir_layout ==
    /\ At("optimized_mir", "layout")
    /\ LET r == run_optimization_passes(Top.body, cfg.mir_opt_level, cfg.validate_mir)
       IN  /\ dump' = [dump EXCEPT ![None] =
                          @ \o SubSeq(r.events, Len(UpToConstProp(r.events)) + 1,
                                      Len(r.events))]
           /\ Return(r.body)
    /\ UNCHANGED <<cells, fault, stolenBy, runs, diags>>
    /\ Step

\* faulty variant: borrowck is not forced before the steal
promoted_mir_start_no_borrowck ==
    /\ At("promoted_mir", "start")
    /\ IF Upgrades THEN delegate("promoted_mir")
       ELSE IF cfg.is_constructor
       THEN /\ Return(<<>>)
            /\ UNCHANGED <<cells, fault, dump, stolenBy, runs, diags>>
       ELSE Calls("mir_validated", "steal")
    /\ Step

\* promoted_mir: the closure of provide, the constructor case, or force borrowck
promoted_mir_start ==
    /\ At("promoted_mir", "start")
    /\ IF Upgrades THEN delegate("promoted_mir")
       ELSE IF cfg.is_constructor
       THEN /\ Return(<<>>)
            /\ UNCHANGED <<cells, fault, dump, stolenBy, runs, diags>>
       ELSE Calls("mir_borrowck", "validated")
    /\ Step

\* tcx.mir_validated(def)
promoted_mir_validated ==
    /\ At("promoted_mir", "validated")
    /\ Calls("mir_validated", "steal")
    /\ Step

\* faulty variant: a promoted body skips the post-borrowck cleanup
promoted_body_passes_no_cleanup(body) ==
    LET r2 == run_optimization_passes(body, cfg.mir_opt_level, cfg.validate_mir)
    IN  [body |-> r2.body, events |-> r2.events]

\* the two pass runs on one promoted body
promoted_body_passes(body) ==
    LET r1 == run_post_borrowck_cleanup_passes(body, cfg.validate_mir)
        r2 == run_optimization_passes(r1.body, cfg.mir_opt_level, cfg.validate_mir)
    IN  [body |-> r2.body, events |-> r1.events \o r2.events]

\* faulty variant: the body cell of mir_validated is stolen, not the promoted one
promoted_mir_steal_body_cell ==
    /\ At("promoted_mir", "steal")
    /\ LET s == Steal_steal(cells[Top.res[1]])
       IN  IF ~s.ok THEN Panic(s.err, Top.res[1])
           ELSE /\ cells' = [cells EXCEPT ![Top.res[1]] = s.cell]
                /\ stolenBy' = [stolenBy EXCEPT ![Top.res[1]] = Append(@, "promoted_mir")]
                /\ Return(<<>>)
                /\ UNCHANGED <<fault, dump, runs, diags>>
    /\ Step

\* promoted.steal(), the passes on every promoted body, the arena allocation
promoted_mir_steal ==
    /\ At("promoted_mir", "steal")
    /\ LET s == Steal_steal(cells[Top.res[2]])
       IN  IF ~s.ok THEN Panic(s.err, Top.res[2])
           ELSE /\ cells' = [cells EXCEPT ![Top.res[2]] = s.cell]
                /\ stolenBy' = [stolenBy EXCEPT ![Top.res[2]] = Append(@, "promoted_mir")]
                /\ dump' = [src \in Sources |->
                               IF src # None /\ src[1] + 1 \in DOMAIN s.val
                               THEN dump[src] \o promoted_body_passes(s.val[src[1] + 1]).events
                               ELSE dump[src]]
                /\ Return([i \in DOMAIN s.val |-> promoted_body_passes(s.val[i]).body])
                /\ UNCHANGED <<fault, runs, diags>>
    /\ Step

----------------------------------------------------------------------------
(* The pipeline of one item *)

NoCall == [op |-> "", target |-> "Build", passes |-> <<>>, before |-> NewBody("Build")]

HarnessIdle ==
    /\ hbody = NewBody("Build") /\ hevents = <<>> /\ hcalls = 0
    /\ hcall = NoCall
    /\ hcell = Unalloc /\ hinit = "" /\ hlog = <<>>

PipelineIdle ==
    /\ cells = [c \in CellNames |-> Unalloc]
    /\ cache = [qk \in QueryKeys |-> [st |-> "none", val |-> <<>>]]
    /\ stack = <<>>
    /\ fault = NoFault
    /\ dump = [src \in Sources |-> <<>>]
    /\ stolenBy = [c \in CellNames |-> <<>>]
    /\ runs = [qk \in QueryKeys |-> 0]
    /\ ret = NoRet
    /\ diags = {}

Init ==
    /\ cfg \in PipelineConfigs
    /\ PipelineIdle
    /\ HarnessIdle

Next ==
    \/ \E q \in Queries, k \in Keys : Request(q, k)
    \/ delegated
    \/ mir_built_start
    \/ unsafety_check_result_start
    \/ unsafety_check_result_borrow
    \/ mir_const_start
    \/ mir_const_built
    \/ mir_const_steal
    \/ mir_const_qualif_start
    \/ mir_const_qualif_borrow
    \/ mir_const_qualif_check_body
    \/ mir_const_qualif_qualifs
    \/ mir_validated_start
    \/ mir_validated_const
    \/ mir_validated_steal
    \/ mir_borrowck_start
    \/ mir_borrowck_borrow
    \/ mir_drops_elaborated_and_const_checked_start
    \/ mir_drops_elaborated_and_const_checked_validated
    \/ mir_drops_elaborated_and_const_checked_steal
    \/ optimized_mir_start
    \/ optimized_mir_steal
    \/ optimized_mir_passes
    \/ optimized_mir_layout
    \/ layout_of_start
    \/ layout_of_fields
    \/ promoted_mir_start
    \/ promoted_mir_validated
    \/ promoted_mir_steal

Spec == Init /\ [][Next]_vars

----------------------------------------------------------------------------
(* The pass engine alone: run_passes and its two wrappers applied to a body
   of any phase, with any target phase and pass table *)

EngineConfigs ==
    { c \in Configs : /\ ~c.is_constructor /\ c.const_kind = None
                      /\ c.opt_const_param_of = None
                      /\ ~c.borrowck_errors /\ c.npromoted = 0 }

\* the pass tables of the module, the empty table, and a table with empty
\* groups and a repeated pass
PassTables ==
    {mir_const_passes, mir_validated_passes(cfg.instrument_coverage),
     <<post_borrowck_cleanup>>, optimization_groups(cfg.mir_opt_level),
     <<>>, << <<>>, <<"A">>, <<>>, <<"B", "A">> >>}

EngineCall(op, target, passes, r) ==
    /\ hcalls < MaxCalls
    /\ hbody' = r.body
    /\ hevents' = r.events
    /\ hcall' = [op |-> op, target |-> target, passes |-> passes, before |-> hbody]
    /\ hcalls' = hcalls + 1
    /\ UNCHANGED cfg /\ UNCHANGED pipeVars /\ UNCHANGED cellVars

h_run_passes(target, passes) ==
    EngineCall("run_passes", target, passes,
               run_passes(hbody, target, passes, cfg.validate_mir))

h_run_post_borrowck_cleanup_passes ==
    EngineCall("run_post_borrowck_cleanup_passes", "DropElab", <<post_borrowck_cleanup>>,
               run_post_borrowck_cleanup_passes(hbody, cfg.validate_mir))

h_run_optimization_passes ==
    EngineCall("run_optimization_passes", "Optimized",
               optimization_groups(cfg.mir_opt_level),
               run_optimization_passes(hbody, cfg.mir_opt_level, cfg.validate_mir))

InitEngine ==
    /\ cfg \in EngineConfigs
    /\ PipelineIdle
    /\ hbody \in {NewBody(p) : p \in Phases}
    /\ hevents = <<>> /\ hcalls = 0 /\ hcall = NoCall
    /\ hcell = Unalloc /\ hinit = "" /\ hlog = <<>>

NextEngine ==
    \/ \E target \in Phases, passes \in PassTables : h_run_passes(target, passes)
    \/ h_run_post_borrowck_cleanup_passes
    \/ h_run_optimization_passes

SpecEngine == InitEngine /\ [][NextEngine]_vars

----------------------------------------------------------------------------
(* One Steal cell alone, under any sequence of borrow() and steal() *)

CellValues == {"body1", "body2"}

CellOp(op, ok, val, cell) ==
    /\ Len(hlog) < MaxOps
    /\ hcell' = cell
    /\ hlog' = Append(hlog, [op |-> op, ok |-> ok, val |-> val, st |-> cell.st])
    /\ UNCHANGED <<cfg, hinit>> /\ UNCHANGED pipeVars /\ UNCHANGED engineVars

h_borrow ==
    LET b == Steal_borrow(hcell) IN CellOp("borrow", b.ok, b.val, hcell)

h_steal ==
    LET s == Steal_steal(hcell) IN CellOp("steal", s.ok, s.val, s.cell)

InitCell ==
    /\ cfg \in {c \in EngineConfigs :
                  ~c.validate_mir /\ ~c.instrument_coverage /\ c.mir_opt_level = 0}
    /\ PipelineIdle
    /\ hbody = NewBody("Build") /\ hevents = <<>> /\ hcalls = 0 /\ hcall = NoCall
    /\ hinit \in CellValues
    /\ hcell = Steal_new(hinit)
    /\ hlog = <<>>

NextCell == h_borrow \/ h_steal

SpecCell == InitCell /\ [][NextCell]_vars

----------------------------------------------------------------------------
(* Properties *)

\* the first steal() among the operations made on the cell, 0 if there is none
FirstSteal ==
    IF \E i \in 1..Len(hlog) : hlog[i].op = "steal"
    THEN CHOOSE i \in 1..Len(hlog) :
            hlog[i].op = "steal" /\ \A j \in 1..(i - 1) : hlog[j].op # "steal"
    ELSE 0

\* C1: on a Steal cell every borrow() before the first steal() succeeds and
\* returns the stored value and leaves the cell Live, the first steal()
\* returns the stored value and leaves the cell Taken, and every borrow()
\* and steal() after it faults and leaves the cell Taken.
C1_SingleConsumer ==
    \A i \in 1..Len(hlog) :
        IF FirstSteal = 0 \/ i < FirstSteal
        THEN hlog[i].ok /\ hlog[i].val = hinit /\ hlog[i].st = "Live"
        ELSE IF i = FirstSteal
        THEN hlog[i].ok /\ hlog[i].val = hinit /\ hlog[i].st = "Taken"
        ELSE ~hlog[i].ok /\ hlog[i].st = "Taken"

\* two borrows, the steal, then a borrow and a second steal that fault
C1_Witness ==
    /\ Len(hlog) = 5
    /\ [i \in 1..5 |-> hlog[i].op] = <<"borrow", "borrow", "steal", "borrow", "steal">>
    /\ hlog[2].ok /\ hlog[3].ok /\ ~hlog[4].ok /\ ~hlog[5].ok
    /\ hcell.st = "Taken"

\* the last call of the engine harness did not return early
Ran == hcalls > 0 /\ phase_index(hcall.before.phase) < phase_index(hcall.target)
ShortCircuited == hcalls > 0 /\ phase_index(hcall.before.phase) >= phase_index(hcall.target)

\* C6: the phase values a body takes under any sequence of engine calls are
\* strictly increasing in Build < Const < Validated < DropElab < Optimized
\* (so each is entered at most once), and no call lowers body.phase.
C6_PhaseMonotone ==
    /\ \A i \in 1..(Len(hbody.hist) - 1) :
          phase_index(hbody.hist[i]) < phase_index(hbody.hist[i + 1])
    /\ hbody.phase = hbody.hist[Len(hbody.hist)]
    /\ hcalls > 0 => phase_index(hbody.phase) >= phase_index(hcall.before.phase)

\* a body advanced by one call, then a call with a lower target phase
C6_Witness ==
    /\ hcalls = 2 /\ Len(hbody.hist) = 2
    /\ phase_index(hcall.target) < phase_index(hbody.phase)

\* C7: a call of run_passes on a body whose phase is at or past the target
\* phase causes no event at all (no hook, no pass, no validation) and leaves
\* the body, its phase included, as it was.
C7_ShortCircuit ==
    ShortCircuited => hevents = <<>> /\ hbody = hcall.before

\* a body already Optimized, sent to Optimized again with validate_mir on
\* and a non-empty pass table
C7_Witness ==
    /\ ShortCircuited /\ cfg.validate_mir
    /\ hcall.before.phase = "Optimized" /\ hcall.target = "Optimized"
    /\ hcall.passes = optimization_groups(cfg.mir_opt_level)
    /\ hevents = <<>>

\* the passes of a table in declared order: groups in order, passes in order
RECURSIVE Flatten(_)
Flatten(groups) == IF groups = <<>> THEN <<>> ELSE Head(groups) \o Flatten(Tail(groups))

HookEvents == SelectSeq(hevents, LAMBDA e : e.kind \in {"before", "run", "after"})

\* C8: a call of run_passes that does not return early causes, for the i-th
\* pass of the declared table (groups in order, passes in order) and for no
\* other, the events before-hook, transformation, after-hook, in this order
\* and before any event of the next pass; the body has received exactly the
\* declared passes in the declared order.
C8_DeclaredOrder ==
    Ran =>
        LET d == Flatten(hcall.passes)
            h == HookEvents
        IN  /\ Len(h) = 3 * Len(d)
            /\ \A i \in 1..Len(d) :
                  /\ h[3 * i - 2].kind = "before" /\ h[3 * i - 2].pass = d[i]
                  /\ h[3 * i - 1].kind = "run" /\ h[3 * i - 1].pass = d[i]
                  /\ h[3 * i].kind = "after" /\ h[3 * i].pass = d[i]
                  /\ \A j \in {3 * i - 2, 3 * i - 1, 3 * i} : h[j].index = i - 1
            /\ hbody.applied = hcall.before.applied \o d

\* a run of the two groups of the optimization table
C8_Witness ==
    /\ Ran /\ hcall.passes = optimization_groups(cfg.mir_opt_level)
    /\ Len(HookEvents) = 3 * (Len(hcall.passes[1]) + 2)

Count(kind) == Len(SelectSeq(hevents, LAMBDA e : e.kind = kind))

\* C9: in a call of run_passes that does not return early, with validate_mir
\* on the validator runs once on the input, before every other event, and
\* once right after the after-hook of every pass; with validate_mir off it
\* runs at neither point; and exactly when the target is Optimized one more
\* validation is the last event and sees the body in phase Optimized,
\* whatever validate_mir is.
C9_Validation ==
    Ran =>
        /\ IF cfg.validate_mir
           THEN /\ Count("validate_input") = 1
                /\ hevents[1].kind = "validate_input"
                /\ hevents[1].body_phase = hcall.before.phase
                /\ Count("validate_after") = Len(Flatten(hcall.passes))
                /\ \A i \in 1..Len(hevents) :
                      hevents[i].kind = "after" =>
                         /\ i < Len(hevents)
                         /\ hevents[i + 1].kind = "validate_after"
                         /\ hevents[i + 1].pass = hevents[i].pass
                         /\ hevents[i + 1].index = hevents[i].index
           ELSE Count("validate_input") = 0 /\ Count("validate_after") = 0
        /\ IF hcall.target = "Optimized"
           THEN /\ Count("validate_end") = 1
                /\ hevents[Len(hevents)].kind = "validate_end"
                /\ hevents[Len(hevents)].body_phase = "Optimized"
           ELSE Count("validate_end") = 0

\* a run to Optimized with validate_mir off: the only validation is the final one
C9_Witness ==
    /\ Ran /\ ~cfg.validate_mir /\ hcall.target = "Optimized"
    /\ hcall.passes = optimization_groups(cfg.mir_opt_level)
    /\ Count("validate_end") = 1

RunNames == [i \in 1..Count("run") |-> SelectSeq(hevents, LAMBDA e : e.kind = "run")[i].pass]

Position(seq, x) == CHOOSE i \in 1..Len(seq) : seq[i] = x
Occurs(seq, x) == \E i \in 1..Len(seq) : seq[i] = x

\* C10: run_optimization_passes on a body in phase DropElab runs, with
\* mir_opt_level = 0, exactly StateTransform, ConstProp, Deaggregator,
\* CriticalCallEdges, PreCodegen (and so not Inline); with mir_opt_level > 0
\* the 18 passes of the optimization group and then CriticalCallEdges,
\* PreCodegen; at every level StateTransform, ConstProp and Deaggregator run,
\* Deaggregator after ConstProp, and the two cleanup passes are last.
C10_OptLevelGating ==
    (Ran /\ hcall.op = "run_optimization_passes" /\ hcall.before.phase = "DropElab") =>
        LET n == Len(RunNames)
        IN  /\ IF cfg.mir_opt_level = 0
               THEN /\ RunNames = <<"StateTransform", "ConstProp", "Deaggregator",
                                    "CriticalCallEdges", "PreCodegen">>
                    /\ ~Occurs(RunNames, "Inline")
               ELSE /\ n = 20
                    /\ SubSeq(RunNames, 1, 18) = optimizations
                    /\ Occurs(RunNames, "Inline")
            /\ Occurs(RunNames, "StateTransform")
            /\ Occurs(RunNames, "ConstProp") /\ Occurs(RunNames, "Deaggregator")
            /\ Position(RunNames, "ConstProp") < Position(RunNames, "Deaggregator")
            /\ n >= 2
            /\ SubSeq(RunNames, n - 1, n) = <<"CriticalCallEdges", "PreCodegen">>
            /\ hbody.phase = "Optimized"

\* the optimization passes have run on a DropElab body with optimizations on
C10_Witness ==
    /\ Ran /\ hcall.op = "run_optimization_passes" /\ hcall.before.phase = "DropElab"
    /\ cfg.mir_opt_level > 0 /\ Len(RunNames) = 20

\* the key the providers of the item run under
ResolvedKey == Key(cfg.opt_const_param_of)

\* the stage that consumes each cell
NextStage(c) ==
    CASE c = "built" -> "mir_const"
      [] c = "const" -> "mir_validated"
      [] c = "validated" -> "mir_drops_elaborated_and_const_checked"
      [] c = "promoted" -> "promoted_mir"
      [] c = "dropelab" -> "optimized_mir"

\* C2: under every order of requests of the queries of one item, each cell
\* is stolen at most once, by the stage designated to consume it (built by
\* mir_const, const by mir_validated, validated by
\* mir_drops_elaborated_and_const_checked, promoted by promoted_mir,
\* dropelab by optimized_mir), a cell is Taken exactly when that stage has
\* stolen it, and no steal() ever faults.
C2_DesignatedStealers ==
    /\ fault.kind # "steal_stolen"
    /\ \A c \in CellNames :
          /\ Len(stolenBy[c]) <= 1
          /\ stolenBy[c] # <<>> => stolenBy[c][1] = NextStage(c)
          /\ cells[c].st = "Taken" <=> stolenBy[c] # <<>>

\* every cell has been created and stolen, and the compilation has not faulted
C2_Witness ==
    /\ fault = NoFault
    /\ \A c \in CellNames : cells[c].st = "Taken" /\ stolenBy[c] = <<NextStage(c)>>
    /\ ret.q = "mir_drops_elaborated_and_const_checked" /\ ret.cached

\* C3: for an item in a const context, under every order of requests,
\* mir_const_qualif never borrows the mir_const cell after it was stolen,
\* the cell is stolen only when mir_const_qualif has finished, and a
\* computed qualification was computed from the body in phase Const with
\* exactly the Const passes applied (no pass of the Validated group).
C3_QualifBeforeSteal ==
    cfg.const_kind # None =>
        /\ ~(fault.kind = "borrow_stolen" /\ fault.by = "mir_const_qualif")
        /\ cells["const"].st = "Taken" =>
              cache[<<"mir_const_qualif", ResolvedKey>>].st = "done"
        /\ \A k \in Keys :
              LET e == cache[<<"mir_const_qualif", k>>]
              IN  e.st = "done" =>
                     IF cfg.return_ty_error THEN e.val = DefaultQualifs
                     ELSE /\ e.val.qualifs = "checked"
                          /\ e.val.body.phase = "Const"
                          /\ e.val.body.applied = Flatten(mir_const_passes)

\* mir_const_qualif requested from outside when mir_validated has already
\* stolen the cell: the qualification is the one computed before the steal
C3_Witness ==
    /\ cfg.const_kind # None /\ ~cfg.return_ty_error
    /\ cells["const"].st = "Taken"
    /\ ret.q = "mir_const_qualif" /\ ret.cached
    /\ ret.val.qualifs = "checked" /\ ret.val.body.phase = "Const"

\* C4: for an item that is not a constructor, when the validated body cell
\* or the promoted-bodies cell is Taken, mir_borrowck has finished and its
\* errors are among the diagnostics; mir_borrowck never borrows a Taken cell.
C4_BorrowckBeforeSteal ==
    /\ ~(fault.kind = "borrow_stolen" /\ fault.by = "mir_borrowck")
    /\ (cells["validated"].st = "Taken" \/ cells["promoted"].st = "Taken") =>
          /\ cache[<<"mir_borrowck", ResolvedKey>>].st = "done"
          /\ cfg.borrowck_errors => "borrowck error" \in diags

\* promoted_mir was requested first: the promoted cell is Taken, the body
\* cell still Live, and borrowck has reported its error
C4_Witness ==
    /\ ~cfg.is_constructor /\ cfg.borrowck_errors
    /\ cells["promoted"].st = "Taken" /\ cells["validated"].st = "Live"
    /\ cache[<<"mir_borrowck", ResolvedKey>>].st = "done"
    /\ "borrowck error" \in diags

\* no provider body is entered twice for a key, and what a request returns
\* is the memoized value
C5_State ==
    /\ \A qk \in Queries \X Keys : runs[qk] <= 1
    /\ ret.q # "" =>
          /\ cache[<<ret.q, ret.key>>].st = "done"
          /\ ret.val = cache[<<ret.q, ret.key>>].val

\* a memoized value never changes, and a step from idle to idle (a request
\* of a memoized key) changes nothing but what is returned
C5_Step ==
    /\ \A qk \in Queries \X Keys : cache[qk].st = "done" => cache'[qk] = cache[qk]
    /\ (stack = <<>> /\ stack' = <<>>) =>
          UNCHANGED <<cells, cache, dump, stolenBy, runs, diags, fault>>

\* C5: no provider body is entered more than once per key; a finished
\* request returns the memoized value; a memoized value never changes; and
\* a request of a memoized key steals nothing, runs no pass and changes
\* nothing but what is returned.
C5_Idempotent == [](C5_State) /\ [][C5_Step]_vars

\* optimized_mir requested a second time: the Optimized body comes from the cache
C5_Witness ==
    /\ ret.q = "optimized_mir" /\ ret.cached
    /\ ret.val.phase = "Optimized"
    /\ runs[<<"optimized_mir", ret.key>>] = 1

----------------------------------------------------------------------------
(* The pipeline: order of the cleanup group, constructors, borrowck errors *)

\* the positions in dump[src] of the transformations of a pass in the
\* transition to a phase, and of all transformations of that transition
RunsOf(src, pass, phase) ==
    {i \in DOMAIN dump[src] :
        dump[src][i].kind = "run" /\ dump[src][i].pass = pass /\ dump[src][i].phase = phase}
RunsIn(src, phase) ==
    {i \in DOMAIN dump[src] : dump[src][i].kind = "run" /\ dump[src][i].phase = phase}

\* C11: in every execution of the post-borrowck cleanup group on a body
\* (top-level or promoted), ElaborateDrops runs once, after
\* SimplifyCfg-early-opt and after CriticalCallEdges and before
\* AddMovesForPackedDrops and before AddRetag; and on every body AddRetag has
\* run before any pass of the optimization (or minimal) group and of the
\* pre-codegen cleanup runs on that body.
C11_DropElabOrder ==
    \A src \in Sources :
        LET at(pass) == RunsOf(src, pass, "DropElab")
        IN  /\ RunsIn(src, "DropElab") # {} =>
                  /\ \A pass \in {"ElaborateDrops", "SimplifyCfg-early-opt",
                                   "CriticalCallEdges", "AddMovesForPackedDrops",
                                   "AddRetag"} : Cardinality(at(pass)) = 1
                  /\ \A e \in at("ElaborateDrops") :
                        /\ \A i \in at("SimplifyCfg-early-opt") : i < e
                        /\ \A i \in at("CriticalCallEdges") : i < e
                        /\ \A i \in at("AddMovesForPackedDrops") : e < i
                        /\ \A i \in at("AddRetag") : e < i
            /\ \A o \in RunsIn(src, "Optimized") : \E i \in at("AddRetag") : i < o

\* the top-level body and a promoted body have both been through the cleanup
\* group and the optimization group
C11_Witness ==
    /\ RunsIn(None, "DropElab") # {} /\ RunsIn(None, "Optimized") # {}
    /\ RunsIn(Some(0), "DropElab") # {} /\ RunsIn(Some(0), "Optimized") # {}

\* C12: for a constructor, optimized_mir returns the body shim::build_adt_ctor
\* builds and promoted_mir the empty collection, and that is all that
\* happens: no other query is forced (no unsafety check, const qualification
\* or borrowck), no cell is created, borrowed or stolen, no pass runs and no
\* event is recorded for the item.
C12_Constructor ==
    cfg.is_constructor =>
        /\ \A qk \in QueryKeys :
              qk[1] \notin {"optimized_mir", "promoted_mir"} =>
                  cache[qk].st = "none" /\ runs[qk] = 0
        /\ \A c \in CellNames : cells[c] = Unalloc /\ stolenBy[c] = <<>>
        /\ \A src \in Sources : dump[src] = <<>>
        /\ fault = NoFault /\ diags = {}
        /\ \A k \in Keys :
              /\ cache[<<"optimized_mir", k>>].st = "done" =>
                    cache[<<"optimized_mir", k>>].val = build_adt_ctor
              /\ cache[<<"promoted_mir", k>>].st = "done" =>
                    cache[<<"promoted_mir", k>>].val = <<>>

\* both queries of a constructor have returned
C12_Witness ==
    /\ cfg.is_constructor
    /\ cache[<<"optimized_mir", Key(None)>>].st = "done"
    /\ cache[<<"promoted_mir", Key(None)>>].st = "done"
    /\ ret.q = "promoted_mir" /\ ret.val = <<>>

\* the passes of the four transitions of a top-level body, and of the two
\* transitions of a promoted body
TopLevelPasses ==
    Flatten(mir_const_passes) \o Flatten(mir_validated_passes(cfg.instrument_coverage))
        \o post_borrowck_cleanup \o Flatten(optimization_groups(cfg.mir_opt_level))
PromotedPasses ==
    post_borrowck_cleanup \o Flatten(optimization_groups(cfg.mir_opt_level))

Done(q) == cache[<<q, ResolvedKey>>].st = "done"
Result(q) == cache[<<q, ResolvedKey>>].val

\* C13: a borrowck failure does not block the later stages. Whether
\* mir_borrowck reports success or violations, the compilation is not
\* ended by it, mir_drops_elaborated_and_const_checked, optimized_mir and
\* promoted_mir make the same steals and run the same pass sequences, and the
\* bodies they return are in phase Optimized; the violations are a recorded
\* diagnostic and nothing else.
C13_BorrowckErrorsDoNotBlock ==
    ~cfg.is_constructor =>
        /\ fault.kind \notin {"steal_stolen", "borrow_stolen", "abort"}
        /\ Done("mir_borrowck") =>
              /\ Result("mir_borrowck") = "BorrowCheckResult"
              /\ ("borrowck error" \in diags) = cfg.borrowck_errors
        /\ Done("mir_drops_elaborated_and_const_checked") =>
              /\ stolenBy["validated"] = <<"mir_drops_elaborated_and_const_checked">>
              /\ cells["dropelab"].st = "Live" =>
                    /\ cells["dropelab"].val.phase = "DropElab"
                    /\ cells["dropelab"].val.applied =
                          SubSeq(TopLevelPasses, 1,
                                 Len(TopLevelPasses)
                                    - Len(Flatten(optimization_groups(cfg.mir_opt_level))))
        /\ Done("optimized_mir") =>
              /\ stolenBy["dropelab"] = <<"optimized_mir">>
              /\ Result("optimized_mir").phase = "Optimized"
              /\ Result("optimized_mir").applied = TopLevelPasses
        /\ Done("promoted_mir") =>
              /\ stolenBy["promoted"] = <<"promoted_mir">>
              /\ Len(Result("promoted_mir")) = cfg.npromoted
              /\ \A i \in DOMAIN Result("promoted_mir") :
                    /\ Result("promoted_mir")[i].phase = "Optimized"
                    /\ Result("promoted_mir")[i].applied = PromotedPasses

\* borrowck has reported violations, and both optimized_mir and promoted_mir
\* (with a promoted body) have returned
C13_Witness ==
    /\ cfg.borrowck_errors /\ "borrowck error" \in diags
    /\ Done("optimized_mir") /\ Result("optimized_mir").phase = "Optimized"
    /\ Done("promoted_mir") /\ Len(Result("promoted_mir")) = 1

----------------------------------------------------------------------------
(* The pipeline: query cycles *)

----------------------------------------------------------------------------
(* The pipeline: one request from scratch *)

\* the before-hook events recorded for the top-level body, and their passes
BeforeEvents == SelectSeq(dump[None], LAMBDA e : e.kind = "before")
PassesOf(events) == [i \in DOMAIN events |-> events[i].pass]

\* optimized_mir of a non-constructor item has returned to a request made
\* when nothing was computed
FreshOptimized ==
    /\ ~cfg.is_constructor
    /\ ret.q = "optimized_mir" /\ ret.fresh /\ ~ret.cached

\* the statement as written: the request yields exactly one before event for
\* every pass of the optimization table (the minimal or the full group, then
\* the pre-codegen cleanup)
C15_OneBeforePerListedPass ==
    FreshOptimized =>
        /\ \A p \in {Flatten(optimization_groups(cfg.mir_opt_level))[i] :
                        i \in DOMAIN Flatten(optimization_groups(cfg.mir_opt_level))} :
              Cardinality({i \in DOMAIN BeforeEvents : BeforeEvents[i].pass = p}) = 1
        /\ ret.val.phase = "Optimized"

\* C15: for a non-constructor item for which nothing has been computed, one
\* request of optimized_mir runs all four transitions: it yields exactly one
\* before event for every pass of the Const, Validated and DropElab tables
\* and then, labelled with the phase Optimized, exactly one before event per
\* pass in [minimal-or-full group] + [pre-codegen cleanup], in declared
\* order (a pass listed in two tables, such as CriticalCallEdges, has one
\* before event per listing); the returned body has phase Optimized.
C15_FreshOptimized ==
    FreshOptimized =>
        /\ PassesOf(SelectSeq(BeforeEvents, LAMBDA e : e.phase = "Optimized"))
              = Flatten(optimization_groups(cfg.mir_opt_level))
        /\ PassesOf(BeforeEvents) = TopLevelPasses
        /\ ret.val.phase = "Optimized"
        /\ ret.val.applied = TopLevelPasses

\* the first request for an fn at mir_opt_level 1 was optimized_mir and has
\* returned a body
C15_Witness ==
    /\ FreshOptimized /\ cfg.const_kind = None /\ cfg.mir_opt_level = 1
    /\ ret.val.phase = "Optimized"
    /\ Len(BeforeEvents) = Len(TopLevelPasses)

----------------------------------------------------------------------------
(* The pipeline: the unsafety check, the degraded qualification, promoted
   bodies, unresolved keys, ownership *)

\* C16: under every order of requests, when the mir_built cell is Taken
\* (only mir_const steals it) the unsafety check of the item has finished,
\* and the unsafety check never borrows the cell after it was stolen.
C16_UnsafetyBeforeSteal ==
    /\ ~(fault.kind = "borrow_stolen" /\ fault.by = "unsafety_check_result")
    /\ stolenBy["built"] \in {<<>>, <<"mir_const">>}
    /\ cells["built"].st = "Taken" =>
          /\ cache[<<"unsafety_check_result", ResolvedKey>>].st = "done"
          /\ runs[<<"unsafety_check_result", ResolvedKey>>] = 1

\* the unsafety check requested from outside when mir_const has already
\* stolen the cell: the result is the one computed before the steal
C16_Witness ==
    /\ cells["built"].st = "Taken" /\ stolenBy["built"] = <<"mir_const">>
    /\ ret.q = "unsafety_check_result" /\ ret.cached
    /\ ret.val = "UnsafetyCheckResult"

\* mir_const_qualif degrades: the item is not in a const context, or the
\* return type of the const carries a type error
Degrades == cfg.const_kind = None \/ cfg.return_ty_error
DelayedBug == "delay_span_bug: mir_const_qualif: MIR had errors"

\* the provider of mir_const_qualif has just returned to a request from outside
QualifReturned == ret.q = "mir_const_qualif" /\ ~ret.cached

\* the statement as written: in both cases of degradation the mir_const cell
\* is Live when mir_const_qualif has returned the default
C17_CellLeftLive ==
    (Degrades /\ QualifReturned) =>
        /\ ret.val = DefaultQualifs
        /\ cells["const"].st = "Live"

C17_State ==
    Degrades =>
        /\ \A k \in Keys : cache[<<"mir_const_qualif", k>>].st = "done" =>
                              cache[<<"mir_const_qualif", k>>].val = DefaultQualifs
        /\ (cfg.const_kind = None /\ QualifReturned /\ ret.fresh) =>
              /\ \A c \in CellNames : cells[c] = Unalloc
              /\ \A qk \in QueryKeys : qk[1] # "mir_const_qualif" =>
                                          cache[qk].st = "none" /\ runs[qk] = 0
        /\ (cfg.const_kind # None /\ QualifReturned) => cells["const"].st = "Live"
        /\ (DelayedBug \in diags) =
              (cfg.const_kind # None /\ Done("mir_const_qualif"))
        /\ fault.kind \notin {"steal_stolen", "borrow_stolen"}
        /\ Done("mir_validated") => stolenBy["const"] = <<"mir_validated">>

\* the return of the provider of mir_const_qualif
C17_Step ==
    (Degrades /\ stack # <<>> /\ Top.q = "mir_const_qualif" /\ Len(stack') < Len(stack)) =>
        /\ cells' = cells /\ stolenBy' = stolenBy /\ dump' = dump
        /\ cells["const"].st # "Taken"
        /\ cfg.const_kind = None =>
              cache'[<<"mir_const", ResolvedKey>>] = cache[<<"mir_const", ResolvedKey>>]

\* C17: mir_const_qualif degrades to the default qualification in two cases.
\* For an item that is not in a const context it returns the default without
\* forcing mir_const and without touching a cell: the mir_const cell stays
\* as it was, not yet created or Live. For a const whose return type carries
\* a type error it borrows the mir_const cell, records a delayed diagnostic
\* and returns the default, not the const validator's result: the cell is
\* left Live. In both cases the cell is not Taken when mir_const_qualif
\* returns and mir_validated steals it afterwards without a fault.
C17_QualifDegrades == [](C17_State) /\ [][C17_Step]_vars

\* the const with the type error: the diagnostic is recorded and
\* mir_validated has stolen the cell after the degraded qualification
C17_Witness ==
    /\ cfg.return_ty_error /\ DelayedBug \in diags
    /\ Done("mir_const_qualif") /\ Result("mir_const_qualif") = DefaultQualifs
    /\ Done("mir_validated") /\ cells["const"].st = "Taken"

\* the transformations recorded for a source, in order
RunEvents(src) == SelectSeq(dump[src], LAMBDA e : e.kind = "run")

StageQueries == {"mir_const", "mir_validated", "mir_drops_elaborated_and_const_checked"}

\* the provider on top of the stack is a stage query with the unresolved key
\* of a const-generic argument
UnresolvedOnTop ==
    /\ cfg.opt_const_param_of # None
    /\ stack # <<>> /\ Top.q \in StageQueries /\ Top.key = Key(None)

C19_State ==
    cfg.opt_const_param_of # None =>
        /\ \A q \in StageQueries :
              /\ cache[<<q, Key(None)>>].st = "done" =>
                    /\ cache[<<q, ResolvedKey>>].st = "done"
                    /\ cache[<<q, Key(None)>>].val = cache[<<q, ResolvedKey>>].val
              /\ runs[<<q, Key(None)>>] <= 1 /\ runs[<<q, ResolvedKey>>] <= 1
        /\ \A i \in DOMAIN stack :
              stack[i].q \in StageQueries =>
                 IF stack[i].key = Key(None)
                 THEN /\ stack[i].pc \in {"start", "delegated"}
                      /\ i < Len(stack) =>
                            /\ stack[i + 1].q = stack[i].q
                            /\ stack[i + 1].key = ResolvedKey
                 ELSE stack[i].pc # "delegated"

\* a step of a stage query with the unresolved key
C19_Step ==
    (UnresolvedOnTop /\ stack' # stack) =>
        /\ cells' = cells /\ stolenBy' = stolenBy /\ dump' = dump /\ diags' = diags
        /\ fault' = fault
        /\ Len(stack') > Len(stack) =>
              /\ stack'[Len(stack')].q = Top.q
              /\ stack'[Len(stack')].key = ResolvedKey
        /\ Len(stack') = Len(stack) =>
              /\ cache[<<Top.q, ResolvedKey>>].st = "done"
              /\ stack'[Len(stack')].res = cache[<<Top.q, ResolvedKey>>].val
        /\ Len(stack') < Len(stack) =>
              /\ Top.pc = "delegated"
              /\ cache'[<<Top.q, Key(None)>>] =
                    [st |-> "done", val |-> cache[<<Top.q, ResolvedKey>>].val]

\* C19: mir_const, mir_validated and
\* mir_drops_elaborated_and_const_checked, requested with the unresolved key
\* of a const-generic argument, request the same query with the resolved key
\* and return its result unchanged: the provider with the unresolved key
\* forces no other query, creates and steals no cell and runs no pass, both
\* keys yield the same cell, and the provider with the resolved key does not
\* delegate again.
C19_Delegation == [](C19_State) /\ [][C19_Step]_vars

\* mir_validated requested first with the unresolved key: both keys have
\* the same two cells, each provider was entered once
C19_Witness ==
    /\ cfg.opt_const_param_of # None
    /\ ret.q = "mir_validated" /\ ret.key = Key(None) /\ ~ret.cached /\ ret.fresh
    /\ ret.val = <<"validated", "promoted">>
    /\ cache[<<"mir_validated", ResolvedKey>>].val = ret.val
    /\ runs[<<"mir_validated", Key(None)>>] = 1 /\ runs[<<"mir_validated", ResolvedKey>>] = 1

\* the cells of the top-level body, in the order of the stages
BodyCells == <<"built", "const", "validated", "dropelab">>
LiveBodyCells == {i \in DOMAIN BodyCells : cells[BodyCells[i]].st = "Live"}

\* the statement as written: at most one body cell is Live, and for every
\* key, once optimized_mir has returned, all four body cells are Taken
C20_AllTakenOnceOptimized ==
    /\ Cardinality(LiveBodyCells) <= 1
    /\ \A k \in Keys :
          cache[<<"optimized_mir", k>>].st = "done" =>
              \A i \in DOMAIN BodyCells : cells[BodyCells[i]].st = "Taken"

\* C20: in every reachable state at most one of the cells of the top-level
\* body (built, Const, validated, drop-elaborated) is Live; a stage's cell
\* exists only when the previous stage's cell is Taken and stolen by that
\* stage; and once optimized_mir has returned, all four cells are Taken for
\* an item that is not a constructor, while for a constructor none of them
\* was ever created.
C20_SingleOwner ==
    /\ Cardinality(LiveBodyCells) <= 1
    /\ \A i \in 2..Len(BodyCells) :
          cells[BodyCells[i]] # Unalloc =>
              /\ cells[BodyCells[i - 1]].st = "Taken"
              /\ stolenBy[BodyCells[i - 1]] = <<NextStage(BodyCells[i - 1])>>
    /\ \A k \in Keys :
          cache[<<"optimized_mir", k>>].st = "done" =>
              \A i \in DOMAIN BodyCells :
                  cells[BodyCells[i]] =
                      IF cfg.is_constructor THEN Unalloc
                      ELSE Stolen

\* optimized_mir of an item that is not a constructor has returned
C20_Witness ==
    /\ ~cfg.is_constructor /\ Done("optimized_mir")
    /\ \A i \in DOMAIN BodyCells : cells[BodyCells[i]].st = "Taken"
    /\ ret.q = "optimized_mir"

----------------------------------------------------------------------------
(* The pipeline: outstanding borrows *)

\* the provider at position i of the stack is mir_const_qualif in its const
\* validation
Validating(i) ==
    stack[i].q = "mir_const_qualif" /\ stack[i].pc \in {"check_body", "qualifs"}

\* the queries whose computation contains the steal of mir_validated
ReachSteal ==
    {"mir_validated", "mir_borrowck", "mir_drops_elaborated_and_const_checked",
     "optimized_mir", "promoted_mir"}

\* C21: no cell is stolen while a borrow of it is outstanding. Every
\* outstanding borrow is held by a provider in progress and its cell is
\* Live; mir_const_qualif holds its borrow of the mir_const cell during the
\* whole const validation, nested queries included; a query requested during
\* the validation that would reach the steal of mir_validated (or that is
\* mir_const_qualif itself) ends in a cycle error that has mir_const_qualif
\* in its cycle, a nested mir_validated never gets past forcing
\* mir_const_qualif, and the cell is never stolen, nor a steal() attempted
\* on it, while borrowed.
C21_NoStealWhileBorrowed ==
    /\ fault.kind # "steal_locked"
    /\ \A c \in CellNames :
          /\ cells[c].readers = Cardinality({i \in DOMAIN stack : stack[i].borrowed = c})
          /\ cells[c].readers > 0 => cells[c].st = "Live"
    /\ \A i \in DOMAIN stack :
          Validating(i) =>
              /\ stack[i].borrowed = "const"
              /\ cells["const"].st = "Live" /\ cells["const"].readers = 1
              /\ stolenBy["const"] = <<>>
              /\ \A j \in DOMAIN stack :
                    (j > i /\ stack[j].q = "mir_validated") => stack[j].pc = "start"
    /\ (cfg.validator_query # None
          /\ cfg.validator_query[1] \in ReachSteal \cup {"mir_const_qualif"}) =>
          /\ fault.kind \in {"none", "cycle"}
          /\ fault.kind = "cycle" =>
                \E j \in DOMAIN fault.cycle : fault.cycle[j].q = "mir_const_qualif"
          /\ cells["const"].st # "Taken"
          /\ ~Done("mir_const_qualif") /\ ~Done("mir_validated")

\* the validation of a const requests optimized_mir of the const: the chain
\* of nested queries reaches mir_validated, which forces mir_const_qualif
\* and finds it in progress, while the borrow is outstanding
C21_Witness ==
    /\ cfg.validator_query = Some("optimized_mir")
    /\ fault.kind = "cycle" /\ fault.by = "mir_validated"
    /\ stack[1].q = "mir_const_qualif" /\ Validating(1)
    /\ Top.q = "mir_validated" /\ Len(stack) = 5
    /\ cells["const"].st = "Live" /\ cells["const"].readers = 1

====
